---- MODULE Spec2Model ----
(***************************************************************************)
(* State store of the Valentine application: the ApplicationState record   *)
(* held by App (useLocalStorage), and the transitions ValentineController  *)
(* applies to it through functional setState updaters.                     *)
(***************************************************************************)
EXTENDS Integers, Sequences, FiniteSets

VARIABLES
    state,      \* App's `state`: the ApplicationState record
    now,        \* the clock read by Date.now() in addPhoto
    lastCall,   \* history: the controller method called last and its argument
    prevState,  \* history: the state that call was applied to
    localStorage,   \* window.localStorage: what each key holds
    saved,      \* useLocalStorage's save effect for the latest render:
                \* "pending", or how its write ended ("stored", "failed")
    timers,     \* the pending setTimeout callbacks of the confetti effect,
                \* each by the time it is due
    mounted,    \* whether the App component is mounted
    swipe,      \* the refs of the swipe hooks, and minSwipeDistance
    fingers,    \* the contact points on the screen, in the order they came
    lastEvent,  \* history: the input event handled last and what it fired
    tabs        \* the documents that keep the key with useLocalStorageSync:
                \* the value each holds, its save effect and the storage
                \* events queued for it

gestureVars == <<swipe, fingers, lastEvent>>

vars == <<state, now, lastCall, prevState, localStorage, saved, timers, mounted,
          swipe, fingers, lastEvent, tabs>>

----------------------------------------------------------------------------
(* Bounds of the model *)

MaxClicks == 1      \* likePhoto / handleHeartClick stop once heartClicks reaches it
MaxPhotos == 4      \* addPhoto stops once photos has this many entries
MaxGallery == 5     \* the same, where only the photo operations are exercised
ClockStart == 10    \* first value of Date.now() the model observes
MaxTicks == 1       \* the clock advances at most this many milliseconds
MaxHeartRun == 10   \* heart clicks in a row, where only the meter is exercised
MaxBatch == 3       \* controller calls issued before the next render
MaxLocalChanges == 1    \* values a document sets by itself, where two share a key

----------------------------------------------------------------------------
(* JavaScript numbers: the integers, and NaN as one distinguished value *)

NaN == -1000000

JsAdd(a, b) == IF a = NaN \/ b = NaN THEN NaN ELSE a + b

\* the % operator: NaN for a zero divisor, sign of the dividend otherwise
JsRem(a, n) ==
    IF a = NaN \/ n = NaN \/ n = 0 THEN NaN
    ELSE IF a >= 0 THEN a % n ELSE -((-a) % n)

MathMin(a, b) == IF a = NaN \/ b = NaN THEN NaN ELSE IF a < b THEN a ELSE b

\* Number.prototype.toString() for a non-negative integer
Digit(d) == CASE d = 0 -> "0" [] d = 1 -> "1" [] d = 2 -> "2" [] d = 3 -> "3"
              [] d = 4 -> "4" [] d = 5 -> "5" [] d = 6 -> "6" [] d = 7 -> "7"
              [] d = 8 -> "8" [] d = 9 -> "9"

RECURSIVE toString(_)
toString(n) == IF n < 10 THEN Digit(n) ELSE toString(n \div 10) \o Digit(n % 10)

\* String.prototype.repeat
RECURSIVE Repeat(_, _)
Repeat(str, n) == IF n = 0 THEN "" ELSE str \o Repeat(str, n - 1)

\* String.prototype.trim, for blanks
RECURSIVE TrimStart(_)
TrimStart(str) ==
    IF Len(str) > 0 /\ SubSeq(str, 1, 1) = " "
    THEN TrimStart(SubSeq(str, 2, Len(str))) ELSE str

RECURSIVE TrimEnd(_)
TrimEnd(str) ==
    IF Len(str) > 0 /\ SubSeq(str, Len(str), Len(str)) = " "
    THEN TrimEnd(SubSeq(str, 1, Len(str) - 1)) ELSE str

Trim(str) == TrimEnd(TrimStart(str))

\* String.prototype.slice(0, n)
Slice0(str, n) == IF Len(str) <= n THEN str ELSE SubSeq(str, 1, n)

MaxCaption == 200

\* Transformers.sanitizeCaption; no controller method calls it
sanitizeCaption(caption) == Slice0(Trim(caption), MaxCaption)

----------------------------------------------------------------------------
(* The model: ValentineModel and createInitialState *)

ValentineModel ==
    [ currentView |-> "home",
      photos |-> <<
          [ id |-> "1", url |-> "/src/assets/photos/DakogKaon.jpg",
            caption |-> "That time you made my heart race...",
            likes |-> 0, isFavorite |-> FALSE ],
          [ id |-> "2", url |-> "/src/assets/photos/Tabian.jpeg",
            caption |-> "You look so good, it should be illegal",
            likes |-> 0, isFavorite |-> FALSE ],
          [ id |-> "3", url |-> "/src/assets/photos/WowGwapa.jpeg",
            caption |-> "My personal snack",
            likes |-> 0, isFavorite |-> FALSE ] >>,
      naughtyLevel |-> 0,
      heartClicks |-> 0,
      showConfetti |-> FALSE,
      currentPhotoIndex |-> 0 ]

createInitialState ==
    [ ValentineModel EXCEPT
        !.photos = [ i \in 1..Len(ValentineModel.photos) |-> ValentineModel.photos[i] ] ]

validViews == {"home", "gallery", "naughty"}

----------------------------------------------------------------------------
(* ValentineController: the updater each method hands to setState *)


\* variants of the updaters with one plausible slip each
navigateTo_resetsIndex(s, viewName) ==
    IF viewName \notin validViews THEN s
    ELSE [ s EXCEPT !.currentView = viewName, !.currentPhotoIndex = 0 ]

navigateTo_unchecked(s, viewName) == [ s EXCEPT !.currentView = viewName ]

navigateTo(s, viewName) ==
    IF viewName \notin validViews THEN s
    ELSE [ s EXCEPT !.currentView = viewName ]


goBack_alwaysHome(s) == [ s EXCEPT !.currentView = "home" ]

goBack(s) ==
    [ s EXCEPT !.currentView = IF s.currentView = "naughty" THEN "gallery" ELSE "home" ]


likePhoto_skipsUnknown(s, photoId) ==
    IF \A i \in 1..Len(s.photos) : s.photos[i].id # photoId THEN s
    ELSE [ s EXCEPT
        !.photos = [ i \in 1..Len(s.photos) |->
                       IF s.photos[i].id = photoId
                       THEN [ s.photos[i] EXCEPT !.likes = @ + 1 ]
                       ELSE s.photos[i] ],
        !.naughtyLevel = MathMin(s.naughtyLevel + 5, 100),
        !.heartClicks = s.heartClicks + 1 ]

likePhoto(s, photoId) ==
    [ s EXCEPT
        !.photos = [ i \in 1..Len(s.photos) |->
                       IF s.photos[i].id = photoId
                       THEN [ s.photos[i] EXCEPT !.likes = @ + 1 ]
                       ELSE s.photos[i] ],
        !.naughtyLevel = MathMin(s.naughtyLevel + 5, 100),
        !.heartClicks = s.heartClicks + 1 ]

toggleFavorite(s, photoId) ==
    [ s EXCEPT
        !.photos = [ i \in 1..Len(s.photos) |->
                       IF s.photos[i].id = photoId
                       THEN [ s.photos[i] EXCEPT !.isFavorite = ~@ ]
                       ELSE s.photos[i] ] ]


changePhoto_noWrap(s, direction) ==
    LET totalPhotos == Len(s.photos)
        newIndex == s.currentPhotoIndex
    IN  [ s EXCEPT !.currentPhotoIndex =
            IF direction = "next" THEN JsRem(JsAdd(newIndex, 1), totalPhotos)
            ELSE IF direction = "prev" THEN JsRem(JsAdd(newIndex, -1), totalPhotos)
            ELSE newIndex ]

changePhoto(s, direction) ==
    LET totalPhotos == Len(s.photos)
        newIndex == s.currentPhotoIndex
    IN  [ s EXCEPT !.currentPhotoIndex =
            IF direction = "next" THEN JsRem(JsAdd(newIndex, 1), totalPhotos)
            ELSE IF direction = "prev"
                 THEN JsRem(JsAdd(JsAdd(newIndex, -1), totalPhotos), totalPhotos)
            ELSE newIndex ]


increaseNaughtyLevel_uncapped(s, amount) ==
    LET newLevel == s.naughtyLevel + amount
    IN  [ s EXCEPT !.naughtyLevel = newLevel,
                   !.showConfetti = (newLevel >= 50 /\ s.naughtyLevel < 50) ]

increaseNaughtyLevel_levelTriggered(s, amount) ==
    LET newLevel == MathMin(s.naughtyLevel + amount, 100)
    IN  [ s EXCEPT !.naughtyLevel = newLevel,
                   !.showConfetti = (newLevel >= 50) ]

increaseNaughtyLevel_keepsFlag(s, amount) ==
    LET newLevel == MathMin(s.naughtyLevel + amount, 100)
    IN  [ s EXCEPT !.naughtyLevel = newLevel,
                   !.showConfetti = (newLevel >= 50 /\ s.naughtyLevel < 50) \/ @ ]

increaseNaughtyLevel(s, amount) ==
    LET newLevel == MathMin(s.naughtyLevel + amount, 100)
    IN  [ s EXCEPT !.naughtyLevel = newLevel,
                   !.showConfetti = (newLevel >= 50 /\ s.naughtyLevel < 50) ]

resetNaughtyLevel_clearsClicks(s) ==
    [ s EXCEPT !.naughtyLevel = 0, !.showConfetti = FALSE, !.heartClicks = 0 ]

resetNaughtyLevel(s) ==
    [ s EXCEPT !.naughtyLevel = 0, !.showConfetti = FALSE ]

handleHeartClick_everyFive(s) ==
    LET newClicks == s.heartClicks + 1
    IN  [ s EXCEPT !.heartClicks = newClicks,
                   !.naughtyLevel = MathMin(s.naughtyLevel + 3, 100),
                   !.showConfetti = (newClicks % 5 = 0) ]

handleHeartClick(s) ==
    LET newClicks == s.heartClicks + 1
    IN  [ s EXCEPT !.heartClicks = newClicks,
                   !.naughtyLevel = MathMin(s.naughtyLevel + 3, 100),
                   !.showConfetti = (newClicks % 10 = 0) ]

hideConfetti(s) == [ s EXCEPT !.showConfetti = FALSE ]

----------------------------------------------------------------------------
(* Values a caller can pass where a string is expected *)

Undefined == [ t |-> "undefined", v |-> "" ]
Str(x) == [ t |-> "string", v |-> x ]
Num(x) == [ t |-> "number", v |-> x ]

\* `x || d` for a string-or-other value: "" and undefined are falsy
OrElse(x, d) == IF x.t = "undefined" \/ (x.t = "string" /\ x.v = "") THEN d ELSE x

DefaultCaption == "<3"   \* the two-hearts emoji of the source

\* ValidationRules.isValidPhoto (the id is always a string here)
isValidPhoto(photo) ==
    /\ photo.url.t = "string"
    /\ photo.caption.t = "string"
    /\ Len(photo.url.v) > 0

\* the object literal addPhoto builds before validating
newPhotoOf(photoData, clock) ==
    [ id |-> toString(clock),
      url |-> photoData.url,
      caption |-> OrElse(photoData.caption, Str(DefaultCaption)) ]

\* reading photoData.url of an absent payload is a TypeError
addPhotoThrows(photoData) == ~photoData.present

addPhoto_prepends(s, photoData, clock) ==
    LET newPhoto == newPhotoOf(photoData, clock)
    IN  IF addPhotoThrows(photoData) THEN s
        ELSE IF ~isValidPhoto(newPhoto) THEN s
        ELSE [ s EXCEPT !.photos =
                 << [ id |-> newPhoto.id, url |-> newPhoto.url.v,
                      caption |-> newPhoto.caption.v,
                      likes |-> 0, isFavorite |-> FALSE ] >> \o s.photos ]

addPhoto(s, photoData, clock) ==
    LET newPhoto == newPhotoOf(photoData, clock)
    IN  IF addPhotoThrows(photoData) THEN s
        ELSE IF ~isValidPhoto(newPhoto) THEN s
        ELSE [ s EXCEPT !.photos = Append(s.photos,
                 [ id |-> newPhoto.id, url |-> newPhoto.url.v,
                   caption |-> newPhoto.caption.v,
                   likes |-> 0, isFavorite |-> FALSE ]) ]

----------------------------------------------------------------------------
(* Inputs the environment draws *)

ViewInputs == {"home", "gallery", "naughty", "bogus"}
IdInputs == {"2", "nope", toString(ClockStart)}
FavoriteInputs == {"2", "nope"}
DirectionInputs == {"next", "prev"}
Amounts == {0, 50}
NegativeAmounts == {-10}
DefaultAmount == 10
\* no reward, and the rewards NaughtyCardView hands out
UiAmounts == {0, 3, 5, DefaultAmount}
PhotoInputs ==
    { [ present |-> TRUE, url |-> Str("/new.jpg"), caption |-> Undefined ],
      [ present |-> TRUE, url |-> Str(""), caption |-> Str("hi") ],
      [ present |-> FALSE, url |-> Undefined, caption |-> Undefined ] }

ClockReadings == ClockStart .. (ClockStart + MaxTicks)

\* payloads beyond the plain ones: captions of every kind, wrong types
LongCaption == Repeat("x", MaxCaption + 1)

ValidUrl == Str("/new.jpg")

RichPhotoInputs ==
    PhotoInputs \cup
    { [ present |-> TRUE, url |-> ValidUrl, caption |-> Str("hi") ],
      [ present |-> TRUE, url |-> ValidUrl, caption |-> Str("") ],
      [ present |-> TRUE, url |-> ValidUrl, caption |-> Str(LongCaption) ],
      [ present |-> TRUE, url |-> ValidUrl, caption |-> Num("7") ],
      [ present |-> TRUE, url |-> Num("42"), caption |-> Str("hi") ],
      [ present |-> TRUE, url |-> Undefined, caption |-> Str("hi") ] }

NoPayload == [ present |-> FALSE, url |-> Undefined, caption |-> Undefined ]

\* getItem gives null when the key has no entry: there is nothing to parse
NoItem == [ kind |-> "missing", value |-> << >> ]

Call(op, arg, amount, threw) ==
    [ op |-> op, arg |-> arg, amount |-> amount, threw |-> threw,
      payload |-> NoPayload, item |-> NoItem ]

CallAddPhoto(photoData) ==
    [ Call("addPhoto", photoData.url.v, 0, addPhotoThrows(photoData))
        EXCEPT !.payload = photoData ]

----------------------------------------------------------------------------
(* The swipe hooks: refs, input events and handlers *)

Infinity == 1000000

\* an undefined coordinate turns into NaN in the first subtraction
JsSub(a, b) == IF a = NaN \/ b = NaN THEN NaN ELSE a - b

MathAbs(a) == IF a = NaN THEN NaN ELSE IF a < 0 THEN -a ELSE a

\* a > b: false whenever an operand is NaN
JsGt(a, b) == a # NaN /\ b # NaN /\ a > b

\* a / b for a >= 0 (exact for the inputs drawn here): Infinity or NaN
\* for a zero divisor, never an exception
JsDiv(a, b) ==
    IF a = NaN \/ b = NaN THEN NaN
    ELSE IF b = 0 THEN (IF a = 0 THEN NaN ELSE Infinity)
    ELSE IF b > 0 THEN a \div b ELSE -(a \div (-b))

DefaultSwipeDistance == 50

\* the refs as useRef(0) / useRef(false) create them
\* no document but the App's own
NoTabs == << >>

\* the handlers a component can pass in the callbacks object
DirectionCallbacks == {"onSwipeLeft", "onSwipeRight", "onSwipeUp", "onSwipeDown"}

AllCallbacks == DirectionCallbacks \cup {"onSwipe"}

\* the hook's arguments and refs; callbacks holds the names that are defined
Refs(minSwipeDistance) ==
    [ minSwipeDistance |-> minSwipeDistance, callbacks |-> AllCallbacks,
      touchStartX |-> 0, touchStartY |-> 0, touchEndX |-> 0, touchEndY |-> 0,
      startX |-> 0, startY |-> 0, isDragging |-> FALSE, startTime |-> 0 ]

Point(x, y) == [ clientX |-> x, clientY |-> y ]

\* a directional callback, called without arguments
Fired(name) == [ name |-> name, velocity |-> 0, duration |-> 0 ]

\* callbacks.onSwipe({ velocity, duration })
FiredOnSwipe(velocity, duration) ==
    [ name |-> "onSwipe", velocity |-> velocity, duration |-> duration ]

Handled(refs, fired, threw) == [ refs |-> refs, fired |-> fired, threw |-> threw ]

\* callbacks.name?.(): a handler that is not defined is not called
OptionalCall(callbacks, fired) ==
    SelectSeq(fired, LAMBDA call : call.name \in callbacks)

\* e.touches[0] of an empty list is undefined: reading clientX of it throws
handleTouchStart(refs, e) ==
    IF e.touches = << >> THEN Handled(refs, << >>, TRUE)
    ELSE Handled([ refs EXCEPT !.touchStartX = e.touches[1].clientX,
                               !.touchStartY = e.touches[1].clientY ],
                 << >>, FALSE)

handleTouchMove(refs, e) ==
    IF e.touches = << >> THEN Handled(refs, << >>, TRUE)
    ELSE Handled([ refs EXCEPT !.touchEndX = e.touches[1].clientX,
                               !.touchEndY = e.touches[1].clientY ],
                 << >>, FALSE)

directionOf_tieHorizontal(deltaX, deltaY, minSwipeDistance) ==
    LET absDeltaX == MathAbs(deltaX)
        absDeltaY == MathAbs(deltaY)
    IN  IF ~JsGt(absDeltaY, absDeltaX)
        THEN IF JsGt(absDeltaX, minSwipeDistance)
             THEN IF JsGt(deltaX, 0) THEN << Fired("onSwipeRight") >>
                  ELSE << Fired("onSwipeLeft") >>
             ELSE << >>
        ELSE IF JsGt(absDeltaY, minSwipeDistance)
             THEN IF JsGt(deltaY, 0) THEN << Fired("onSwipeDown") >>
                  ELSE << Fired("onSwipeUp") >>
             ELSE << >>

\* the branches of handleTouchEnd: which callbacks are called
directionOf(deltaX, deltaY, minSwipeDistance) ==
    LET absDeltaX == MathAbs(deltaX)
        absDeltaY == MathAbs(deltaY)
    IN  IF JsGt(absDeltaX, absDeltaY)
        THEN IF JsGt(absDeltaX, minSwipeDistance)
             THEN IF JsGt(deltaX, 0) THEN << Fired("onSwipeRight") >>
                  ELSE << Fired("onSwipeLeft") >>
             ELSE << >>
        ELSE IF JsGt(absDeltaY, minSwipeDistance)
             THEN IF JsGt(deltaY, 0) THEN << Fired("onSwipeDown") >>
                  ELSE << Fired("onSwipeUp") >>
             ELSE << >>

handleTouchEnd(refs, e) ==
    IF e.changedTouches = << >> THEN Handled(refs, << >>, TRUE)
    ELSE LET ended == [ refs EXCEPT !.touchEndX = e.changedTouches[1].clientX,
                                    !.touchEndY = e.changedTouches[1].clientY ]
             deltaX == JsSub(ended.touchEndX, ended.touchStartX)
             deltaY == JsSub(ended.touchEndY, ended.touchStartY)
         IN  Handled(ended,
                     OptionalCall(refs.callbacks,
                                  directionOf(deltaX, deltaY, refs.minSwipeDistance)),
                     FALSE)

\* useSwipeWithMouse: a mouse event carries clientX and clientY itself
handleMouseDown(refs, e) ==
    Handled([ refs EXCEPT !.isDragging = TRUE,
                          !.startX = e.clientX,
                          !.startY = e.clientY ],
            << >>, FALSE)

handleMouseMove(refs, e) == Handled(refs, << >>, FALSE)

handleMouseUp_tieHorizontal(refs, e) ==
    IF ~refs.isDragging THEN Handled(refs, << >>, FALSE)
    ELSE LET deltaX == JsSub(e.clientX, refs.startX)
             deltaY == JsSub(e.clientY, refs.startY)
             absDeltaX == MathAbs(deltaX)
             absDeltaY == MathAbs(deltaY)
             fired ==
                 IF ~JsGt(absDeltaY, absDeltaX) /\ JsGt(absDeltaX, refs.minSwipeDistance)
                 THEN IF JsGt(deltaX, 0) THEN << Fired("onSwipeRight") >>
                      ELSE << Fired("onSwipeLeft") >>
                 ELSE IF JsGt(absDeltaY, refs.minSwipeDistance)
                 THEN IF JsGt(deltaY, 0) THEN << Fired("onSwipeDown") >>
                      ELSE << Fired("onSwipeUp") >>
                 ELSE << >>
         IN  Handled([ refs EXCEPT !.isDragging = FALSE ],
                     OptionalCall(refs.callbacks, fired), FALSE)

handleMouseUp_ignoresDragging(refs, e) ==
    IF FALSE THEN Handled(refs, << >>, FALSE)
    ELSE LET deltaX == JsSub(e.clientX, refs.startX)
             deltaY == JsSub(e.clientY, refs.startY)
             absDeltaX == MathAbs(deltaX)
             absDeltaY == MathAbs(deltaY)
             fired ==
                 IF JsGt(absDeltaX, absDeltaY) /\ JsGt(absDeltaX, refs.minSwipeDistance)
                 THEN IF JsGt(deltaX, 0) THEN << Fired("onSwipeRight") >>
                      ELSE << Fired("onSwipeLeft") >>
                 ELSE IF JsGt(absDeltaY, refs.minSwipeDistance)
                 THEN IF JsGt(deltaY, 0) THEN << Fired("onSwipeDown") >>
                      ELSE << Fired("onSwipeUp") >>
                 ELSE << >>
         IN  Handled([ refs EXCEPT !.isDragging = FALSE ],
                     OptionalCall(refs.callbacks, fired), FALSE)

handleMouseUp(refs, e) ==
    IF ~refs.isDragging THEN Handled(refs, << >>, FALSE)
    ELSE LET deltaX == JsSub(e.clientX, refs.startX)
             deltaY == JsSub(e.clientY, refs.startY)
             absDeltaX == MathAbs(deltaX)
             absDeltaY == MathAbs(deltaY)
             fired ==
                 IF JsGt(absDeltaX, absDeltaY) /\ JsGt(absDeltaX, refs.minSwipeDistance)
                 THEN IF JsGt(deltaX, 0) THEN << Fired("onSwipeRight") >>
                      ELSE << Fired("onSwipeLeft") >>
                 ELSE IF JsGt(absDeltaY, refs.minSwipeDistance)
                 THEN IF JsGt(deltaY, 0) THEN << Fired("onSwipeDown") >>
                      ELSE << Fired("onSwipeUp") >>
                 ELSE << >>
         IN  Handled([ refs EXCEPT !.isDragging = FALSE ],
                     OptionalCall(refs.callbacks, fired), FALSE)

\* useSwipeVelocity: Date.now() is read before the touch handler runs
handleTouchStartWithTime(refs, e, clock) ==
    handleTouchStart([ refs EXCEPT !.startTime = clock ], e)

handleTouchEndWithVelocity_insteadOf(refs, e, clock) ==
    LET duration == clock - refs.startTime
        velocity == JsDiv(refs.minSwipeDistance, duration)
        reported == IF "onSwipe" \in refs.callbacks
                    THEN << FiredOnSwipe(velocity, duration) >>
                    ELSE << >>
        ended == handleTouchEnd(refs, e)
    IN  Handled(ended.refs,
                IF reported # << >> THEN reported ELSE ended.fired,
                ended.threw)

handleTouchEndWithVelocity(refs, e, clock) ==
    LET duration == clock - refs.startTime
        velocity == JsDiv(refs.minSwipeDistance, duration)
        reported == IF "onSwipe" \in refs.callbacks
                    THEN << FiredOnSwipe(velocity, duration) >>
                    ELSE << >>
        ended == handleTouchEnd(refs, e)
    IN  Handled(ended.refs, reported \o ended.fired, ended.threw)

\* the event handled last: its kind, the finger (0 for the mouse) and its
\* rank among the contacts, where it is and where it came down
Event(type, finger, rank, at, origin, handled, before) ==
    [ type |-> type, finger |-> finger, rank |-> rank,
      at |-> at, origin |-> origin,
      threw |-> handled.threw, fired |-> handled.fired, before |-> before ]

NoEvent(refs) ==
    Event("none", 0, 0, Point(0, 0), Point(0, 0), Handled(refs, << >>, FALSE), refs)

GestureIdle(minSwipeDistance) ==
    /\ swipe = Refs(minSwipeDistance)
    /\ fingers = << >>
    /\ lastEvent = NoEvent(Refs(minSwipeDistance))

----------------------------------------------------------------------------
(* Initial states *)

AppKey == "valentine-app-state"       \* the key App passes to useLocalStorage
ControllerKey == "valentine-state"    \* the key of the controller's own save
StoreKeys == {AppKey, ControllerKey}

Missing == NoItem

JsonNull == NaN - 1

JSONstringify_threeFields(value) ==
    [ kind |-> "json",
      value |-> [ createInitialState EXCEPT
          !.photos = value.photos,
          !.naughtyLevel = value.naughtyLevel,
          !.heartClicks = value.heartClicks ] ]

\* JSON.stringify of a state: NaN is written as null
JSONstringify(value) ==
    [ kind |-> "json",
      value |-> [ value EXCEPT
          !.currentPhotoIndex = IF @ = NaN THEN JsonNull ELSE @,
          !.naughtyLevel = IF @ = NaN THEN JsonNull ELSE @ ] ]

saveEffect_threeFields(store, key, storedValue, accepted) ==
    IF accepted
    THEN [ store EXCEPT ![key] = JSONstringify(
             [ createInitialState EXCEPT
                 !.photos = storedValue.photos,
                 !.naughtyLevel = storedValue.naughtyLevel,
                 !.heartClicks = storedValue.heartClicks ]) ]
    ELSE store

\* the body of the save effect; a setItem that throws is caught
saveEffect(store, key, storedValue, accepted) ==
    IF accepted THEN [ store EXCEPT ![key] = JSONstringify(storedValue) ]
    ELSE store

effectAfter_mountOnly(calledSetState, status) == status

effectAfter_stopsAfterFailure(calledSetState, status) ==
    IF calledSetState /\ status # "failed" THEN "pending" ELSE status

\* the effect's dependencies are [key, storedValue]: every setState call
\* installs a new state object and so schedules the effect again
effectAfter(calledSetState, status) ==
    IF calledSetState THEN "pending" ELSE status

\* what the key "valentine-app-state" holds when the App mounts
StoredItems ==
    { Missing,
      [ kind |-> "json", value |-> createInitialState ],
      [ kind |-> "json", value |-> [ createInitialState EXCEPT !.photos = << >> ] ],
      [ kind |-> "json", value |-> [ createInitialState EXCEPT
                                       !.currentView = "gallery",
                                       !.naughtyLevel = 40,
                                       !.heartClicks = 1 ] ],
      [ kind |-> "json", value |-> [ createInitialState EXCEPT
                                       !.currentView = "settings",
                                       !.naughtyLevel = 150 ] ],
      [ kind |-> "empty", value |-> createInitialState ],
      [ kind |-> "malformed", value |-> createInitialState ] }

\* a string is truthy unless it is empty; getItem gives null for no entry
Truthy(item) == item.kind \notin {"missing", "empty"}

\* JSON.parse: the value written by JSON.stringify, or a SyntaxError
JSONparse(item) ==
    [ ok |-> item.kind = "json", value |-> item.value ]

\* the try block of the lazy initializer: item ? JSON.parse(item) : initialValue
storedValueOf(item, initialValue) ==
    IF Truthy(item) THEN JSONparse(item).value ELSE initialValue

lazyInitializer_ignoresStore(readFails, item, initialValue) ==
    [ value |-> initialValue, threw |-> FALSE ]

\* useLocalStorage's lazy initializer: a getItem or a JSON.parse that throws
\* is caught and the initial value is returned
lazyInitializer(readFails, item, initialValue) ==
    IF readFails \/ (Truthy(item) /\ ~JSONparse(item).ok)
    THEN [ value |-> initialValue, threw |-> FALSE ]
    ELSE [ value |-> storedValueOf(item, initialValue), threw |-> FALSE ]

Init ==
    /\ state = createInitialState
    /\ now = ClockStart
    /\ lastCall = Call("init", "", 0, FALSE)
    /\ prevState = createInitialState
    /\ localStorage = [ k \in StoreKeys |-> Missing ]
    /\ saved = "pending"
    /\ timers = << >>
    /\ mounted = TRUE
    /\ tabs = NoTabs
    /\ GestureIdle(DefaultSwipeDistance)

----------------------------------------------------------------------------
(* Actions: one controller call each, applied atomically by setState *)

\* the controller on its own: the store is out of the picture
Apply(next, call) ==
    /\ state' = next
    /\ prevState' = state
    /\ lastCall' = call
    /\ UNCHANGED <<localStorage, saved, timers, mounted>>
    /\ UNCHANGED <<gestureVars, tabs>>

Pure(next, call) == Apply(next, call) /\ UNCHANGED now

NavigateTo == \E viewName \in ViewInputs :
    Pure(navigateTo(state, viewName), Call("navigateTo", viewName, 0, FALSE))

GoBack == Pure(goBack(state), Call("goBack", "", 0, FALSE))

LikePhoto == \E photoId \in IdInputs :
    /\ state.heartClicks < MaxClicks
    /\ Pure(likePhoto(state, photoId), Call("likePhoto", photoId, 0, FALSE))

ToggleFavoriteIn(ids) == \E photoId \in ids :
    Pure(toggleFavorite(state, photoId), Call("toggleFavorite", photoId, 0, FALSE))

ToggleFavorite == ToggleFavoriteIn(FavoriteInputs)

ChangePhoto == \E direction \in DirectionInputs :
    Pure(changePhoto(state, direction), Call("changePhoto", direction, 0, FALSE))

\* Date.now() is read once per call; the clock never runs backwards
AddPhotoFrom(inputs, limit) == \E photoData \in inputs, clock \in ClockReadings :
    /\ Len(state.photos) < limit
    /\ clock >= now
    /\ now' = clock
    /\ Apply(addPhoto(state, photoData, clock), CallAddPhoto(photoData))

AddPhotoUpTo(limit) == AddPhotoFrom(PhotoInputs, limit)

AddPhoto == AddPhotoUpTo(MaxPhotos)

IncreaseNaughtyLevel == \E amount \in Amounts :
    Pure(increaseNaughtyLevel(state, amount),
          Call("increaseNaughtyLevel", "", amount, FALSE))

ResetNaughtyLevel == Pure(resetNaughtyLevel(state), Call("resetNaughtyLevel", "", 0, FALSE))

HandleHeartClick ==
    /\ state.heartClicks < MaxClicks
    /\ Pure(handleHeartClick(state), Call("handleHeartClick", "", 0, FALSE))

HideConfetti == Pure(hideConfetti(state), Call("hideConfetti", "", 0, FALSE))

Next ==
    \/ NavigateTo
    \/ GoBack
    \/ LikePhoto
    \/ ToggleFavorite
    \/ ChangePhoto
    \/ AddPhoto
    \/ IncreaseNaughtyLevel
    \/ ResetNaughtyLevel
    \/ HandleHeartClick
    \/ HideConfetti

Spec == Init /\ [][Next]_vars

----------------------------------------------------------------------------
(* increaseNaughtyLevel called with any integer amount on a level in range *)

IncreaseAnyAmount == \E amount \in Amounts \cup NegativeAmounts :
    /\ state.naughtyLevel \in 0..100
    /\ Pure(increaseNaughtyLevel(state, amount),
            Call("increaseNaughtyLevel", "", amount, FALSE))

NextAnyAmount ==
    \/ IncreaseAnyAmount
    \/ ResetNaughtyLevel
    \/ LikePhoto
    \/ HandleHeartClick
    \/ HideConfetti
    \/ NavigateTo

SpecAnyAmount == Init /\ [][NextAnyAmount]_vars

----------------------------------------------------------------------------
(* The photo operations alone, with room for several added photos *)

AddToGallery == AddPhotoUpTo(MaxGallery)

\* favourites are toggled on the added photos as well
ToggleGalleryFavorite == ToggleFavoriteIn(IdInputs)

NextGallery ==
    \/ AddToGallery
    \/ LikePhoto
    \/ ToggleGalleryFavorite
    \/ ChangePhoto

SpecGallery == Init /\ [][NextGallery]_vars

----------------------------------------------------------------------------
(* The naughty meter and the heart button alone, over a long run of clicks *)

IncreaseUiAmount == \E amount \in UiAmounts :
    Pure(increaseNaughtyLevel(state, amount),
         Call("increaseNaughtyLevel", "", amount, FALSE))

HeartClickRun ==
    /\ state.heartClicks < MaxHeartRun
    /\ Pure(handleHeartClick(state), Call("handleHeartClick", "", 0, FALSE))

NextNaughty ==
    \/ IncreaseUiAmount
    \/ ResetNaughtyLevel
    \/ HeartClickRun
    \/ HideConfetti

SpecNaughty == Init /\ [][NextNaughty]_vars

----------------------------------------------------------------------------
(* addPhoto with payloads of every kind *)

AddRichPhoto == AddPhotoFrom(RichPhotoInputs, MaxPhotos)

NextAddPhoto ==
    \/ AddRichPhoto
    \/ ChangePhoto
    \/ ToggleFavorite
    \/ NavigateTo

SpecAddPhoto == Init /\ [][NextAddPhoto]_vars

----------------------------------------------------------------------------
(* The App mounted over whatever the store holds *)

InitLoaded ==
    /\ \E item \in StoredItems, readFails \in BOOLEAN :
         LET loaded == lazyInitializer(readFails, item, createInitialState)
         IN  /\ localStorage = [ k \in StoreKeys |-> IF k = AppKey THEN item ELSE Missing ]
             /\ state = loaded.value
             /\ lastCall = Call("init", IF readFails THEN "blocked" ELSE "", 0, loaded.threw)
    /\ now = ClockStart
    /\ prevState = state
    /\ saved = "pending"
    /\ timers = << >>
    /\ mounted = TRUE
    /\ tabs = NoTabs
    /\ GestureIdle(DefaultSwipeDistance)

NextLoaded ==
    \/ ChangePhoto
    \/ AddPhoto
    \/ ToggleFavorite
    \/ NavigateTo
    \/ GoBack

SpecLoaded == InitLoaded /\ [][NextLoaded]_vars

----------------------------------------------------------------------------
(* Saving a state and loading it again, after any controller calls *)

\* what the save effect writes is what the lazy initializer of the next
\* page load reads
RoundTrip ==
    LET item == JSONstringify(state)
        loaded == lazyInitializer(FALSE, item, createInitialState)
    IN  Pure(loaded.value, Call("roundTrip", "", 0, loaded.threw))

NextRoundTrip ==
    \/ Next
    \/ RoundTrip

SpecRoundTrip == Init /\ [][NextRoundTrip]_vars

----------------------------------------------------------------------------
(* The running App: controller calls re-render, and the save effect of      *)
(* useLocalStorage runs after the render                                    *)

Commit(next, call, calledSetState) ==
    /\ state' = next
    /\ prevState' = state
    /\ lastCall' = call
    /\ saved' = effectAfter(calledSetState, saved)
    /\ UNCHANGED <<now, localStorage, timers, mounted>>
    /\ UNCHANGED <<gestureVars, tabs>>

AppNavigateTo == \E viewName \in ViewInputs :
    Commit(navigateTo(state, viewName), Call("navigateTo", viewName, 0, FALSE),
           viewName \in validViews)

AppToggleFavorite ==
    LET photoId == state.photos[state.currentPhotoIndex + 1].id
    IN  Commit(toggleFavorite(state, photoId),
               Call("toggleFavorite", photoId, 0, FALSE), TRUE)

AppHeartClick ==
    /\ state.heartClicks < MaxHeartRun
    /\ Commit(handleHeartClick(state), Call("handleHeartClick", "", 0, FALSE), TRUE)

\* the timer is set only while the confetti shows
AppHideConfetti ==
    /\ state.showConfetti
    /\ Commit(hideConfetti(state), Call("hideConfetti", "", 0, FALSE), TRUE)

\* the effect of the latest render; the store may refuse the write
SaveEffect == \E accepted \in BOOLEAN :
    /\ saved = "pending"
    /\ localStorage' = saveEffect(localStorage, AppKey, state, accepted)
    /\ saved' = IF accepted THEN "stored" ELSE "failed"
    /\ UNCHANGED <<state, now, lastCall, prevState, timers, mounted>>
    /\ UNCHANGED <<gestureVars, tabs>>

NextApp ==
    \/ AppNavigateTo
    \/ AppToggleFavorite
    \/ AppHeartClick
    \/ AppHideConfetti
    \/ SaveEffect

SpecApp == Init /\ [][NextApp]_vars

----------------------------------------------------------------------------
(* Several controller calls before the next render: each hands setState an  *)
(* updater, and React runs the queued updaters in the order they were given *)

BatchedCalls == {"handleHeartClick", "hideConfetti"}

\* the updater a controller method hands to setState
updaterOf(op, s) ==
    IF op = "handleHeartClick" THEN handleHeartClick(s) ELSE hideConfetti(s)

applyBatch_staleState(s, calls) ==
    IF calls = << >> THEN s ELSE updaterOf(calls[Len(calls)], s)

\* the updater queue: each updater gets the state the one before it returned
RECURSIVE applyBatch(_, _)
applyBatch(s, calls) ==
    IF calls = << >> THEN s
    ELSE applyBatch(updaterOf(Head(calls), s), Tail(calls))

Batches == UNION { [ 1..k -> BatchedCalls ] : k \in 1..MaxBatch }

Batch == \E calls \in Batches :
    /\ state.heartClicks + Len(calls) <= MaxHeartRun + MaxBatch
    /\ state' = applyBatch(state, calls)
    /\ prevState' = state
    /\ lastCall' = [ Call("batch", "", Len(calls), FALSE) EXCEPT !.payload = calls ]
    /\ UNCHANGED <<now, localStorage, saved, timers, mounted>>
    /\ UNCHANGED <<gestureVars, tabs>>

NextBatch == Batch

SpecBatch == Init /\ [][NextBatch]_vars

----------------------------------------------------------------------------
(* useLocalStorageWithRemove: the App's state kept under the same key, with *)
(* removeValue at hand                                                      *)

\* the try block of removeValue: removeItem, then setStoredValue(initialValue);
\* a removeItem that throws is caught before setStoredValue is reached
removeValue(store, key, storedValue, initialValue, accepted) ==
    IF accepted
    THEN [ store |-> [ store EXCEPT ![key] = Missing ],
           value |-> initialValue, calledSetState |-> TRUE ]
    ELSE [ store |-> store, value |-> storedValue, calledSetState |-> FALSE ]

\* React leaves out the render when the value set is the object it holds:
\* so it is until the first render after the mount, initialValue being the
\* object made by createInitialState() in the render removeValue closes over.
\* A removal refused right after the mount changes nothing at all. The
\* effects of a render have run by the time a handler calls removeValue.
RemoveValue == \E accepted \in BOOLEAN :
    LET sameObject == lastCall.op = "init"
        removed == removeValue(localStorage, AppKey, state, createInitialState, accepted)
    IN  /\ saved # "pending"
        /\ accepted \/ ~sameObject
        /\ localStorage' = removed.store
        /\ state' = removed.value
        /\ prevState' = state
        /\ lastCall' = Call("removeValue", IF accepted THEN "" ELSE "blocked", 0, FALSE)
        /\ saved' = effectAfter(removed.calledSetState /\ ~sameObject, saved)
        /\ UNCHANGED <<now, timers, mounted>>
        /\ UNCHANGED <<gestureVars, tabs>>

NextRemove ==
    \/ RemoveValue
    \/ AppToggleFavorite
    \/ AppHeartClick
    \/ SaveEffect

SpecRemove == Init /\ [][NextRemove]_vars

----------------------------------------------------------------------------
(* useLocalStorageSync: the same key is open in another tab, whose writes   *)
(* arrive as storage events                                                 *)

\* a state that differs from the default one in every field
OtherTabState ==
    [ currentView |-> "naughty",
      photos |-> << [ createInitialState.photos[3] EXCEPT !.likes = 2 ],
                    createInitialState.photos[1] >>,
      naughtyLevel |-> 40,
      heartClicks |-> 7,
      showConfetti |-> TRUE,
      currentPhotoIndex |-> 1 ]

\* e.newValue: null for a removed key, otherwise the string written
NewValues ==
    { Missing,
      [ kind |-> "empty", value |-> createInitialState ],
      [ kind |-> "malformed", value |-> createInitialState ],
      JSONstringify(createInitialState),
      JSONstringify(OtherTabState) }

StorageEvents == [ key : StoreKeys, newValue : NewValues ]

handleStorageChange_mergesFields(local, key, e) ==
    IF e.key = key /\ e.newValue.kind # "missing" /\ JSONparse(e.newValue).ok
    THEN [ value |-> [ JSONparse(e.newValue).value EXCEPT
                         !.currentView = local.currentView ],
           calledSetState |-> TRUE, threw |-> FALSE ]
    ELSE [ value |-> local, calledSetState |-> FALSE, threw |-> FALSE ]

\* the listener: only its own key and a non-null value are looked at, and
\* a JSON.parse that throws is caught before setStoredValue is reached
handleStorageChange(local, key, e) ==
    IF e.key = key /\ e.newValue.kind # "missing" /\ JSONparse(e.newValue).ok
    THEN [ value |-> JSONparse(e.newValue).value,
           calledSetState |-> TRUE, threw |-> FALSE ]
    ELSE [ value |-> local, calledSetState |-> FALSE, threw |-> FALSE ]

\* the other tab has written e.newValue under e.key when the event arrives
StorageEvent == \E e \in StorageEvents :
    LET handled == handleStorageChange(state, AppKey, e)
    IN  /\ localStorage' = [ localStorage EXCEPT ![e.key] = e.newValue ]
        /\ state' = handled.value
        /\ prevState' = state
        /\ lastCall' = [ Call("storage", e.key, 0, handled.threw)
                            EXCEPT !.item = e.newValue ]
        /\ saved' = effectAfter(handled.calledSetState, saved)
        /\ UNCHANGED <<now, timers, mounted>>
        /\ UNCHANGED <<gestureVars, tabs>>

NextSync ==
    \/ StorageEvent
    \/ AppNavigateTo
    \/ AppToggleFavorite
    \/ SaveEffect

SpecSync == Init /\ [][NextSync]_vars

----------------------------------------------------------------------------
(* Two documents with useLocalStorageSync on the same key: a setItem that   *)
(* changes what the key holds queues a storage event for the other one      *)

TabIds == {"A", "B"}

OtherTab(t) == CHOOSE o \in TabIds : o # t

\* the storage event of a setItem: none when the key held that string
storageEventsOf(old, new, key) ==
    IF old = new THEN << >> ELSE << [ key |-> key, newValue |-> new ] >>

\* what a user does in one document: a favourite toggled, a heart clicked
LocalChanges(value) ==
    { toggleFavorite(value, value.photos[1].id), handleHeartClick(value) }

InitTabs ==
    /\ state = createInitialState
    /\ now = ClockStart
    /\ lastCall = Call("init", "", 0, FALSE)
    /\ prevState = createInitialState
    /\ localStorage = [ k \in StoreKeys |-> Missing ]
    /\ saved = "pending"
    /\ timers = << >>
    /\ mounted = TRUE
    /\ GestureIdle(DefaultSwipeDistance)
    /\ tabs = [ t \in TabIds |->
                 [ storedValue |-> createInitialState, effect |-> "pending",
                   inbox |-> << >>, changes |-> 0 ] ]

TabsIdle ==
    UNCHANGED <<state, now, lastCall, prevState, saved, timers, mounted, gestureVars>>

\* setStoredValue called by the document itself
TabSetValue(t) == \E next \in LocalChanges(tabs[t].storedValue) :
    /\ tabs[t].changes < MaxLocalChanges
    /\ tabs' = [ tabs EXCEPT ![t].storedValue = next,
                             ![t].effect = effectAfter(TRUE, @),
                             ![t].changes = @ + 1 ]
    /\ UNCHANGED localStorage
    /\ TabsIdle

\* the save effect of one document; the other one is told of a change
TabSaveEffect(t) ==
    /\ tabs[t].effect = "pending"
    /\ localStorage' = saveEffect(localStorage, AppKey, tabs[t].storedValue, TRUE)
    /\ tabs' = [ tabs EXCEPT
                   ![t].effect = "stored",
                   ![OtherTab(t)].inbox =
                       @ \o storageEventsOf(localStorage[AppKey], localStorage'[AppKey], AppKey) ]
    /\ TabsIdle

\* the listener of one document takes the oldest event queued for it
TabStorageEvent(t) ==
    /\ tabs[t].inbox # << >>
    /\ LET handled == handleStorageChange(tabs[t].storedValue, AppKey, Head(tabs[t].inbox))
       IN  tabs' = [ tabs EXCEPT
                       ![t].storedValue = handled.value,
                       ![t].effect = effectAfter(handled.calledSetState, @),
                       ![t].inbox = Tail(@) ]
    /\ UNCHANGED localStorage
    /\ TabsIdle

NextTabs == \E t \in TabIds :
    \/ TabSetValue(t)
    \/ TabSaveEffect(t)
    \/ TabStorageEvent(t)

SpecTabs == InitTabs /\ [][NextTabs]_vars

\* effects run and queued events are delivered; a document is free never to
\* change the value itself
SpecTabsLive ==
    /\ SpecTabs
    /\ \A t \in TabIds : WF_vars(TabSaveEffect(t)) /\ WF_vars(TabStorageEvent(t))

----------------------------------------------------------------------------
(* The confetti effect of App: a timer hides the confetti, and the effect's *)
(* cleanup clears the timer                                                 *)

ConfettiDelay == 3000

cleanup_keepsTimer(flag, pending) == pending

\* the cleanup returned by the effect clears the timer that run had set;
\* a run that saw the flag false set none and returned no cleanup
cleanup(flag, pending) ==
    IF flag /\ pending # << >> THEN SubSeq(pending, 1, Len(pending) - 1)
    ELSE pending

confettiEffect_neverSets(oldFlag, newFlag, pending, clock) ==
    IF newFlag = oldFlag THEN pending ELSE cleanup(oldFlag, pending)

\* the effect depends on [state.showConfetti]: when the flag changed, the
\* previous run is cleaned up and, if the flag is now true, a timer is set
confettiEffect(oldFlag, newFlag, pending, clock) ==
    IF newFlag = oldFlag THEN pending
    ELSE IF newFlag THEN Append(cleanup(oldFlag, pending), clock + ConfettiDelay)
    ELSE cleanup(oldFlag, pending)

\* a controller call, the render it causes and the effects of that render
Render(next, call, pending) ==
    /\ state' = next
    /\ prevState' = state
    /\ lastCall' = call
    /\ saved' = effectAfter(TRUE, saved)
    /\ timers' = IF mounted
                 THEN confettiEffect(state.showConfetti, next.showConfetti, pending, now')
                 ELSE pending
    /\ UNCHANGED <<localStorage, mounted>>
    /\ UNCHANGED <<gestureVars, tabs>>

TimedIncrease == \E amount \in UiAmounts :
    /\ mounted
    /\ UNCHANGED now
    /\ Render(increaseNaughtyLevel(state, amount),
              Call("increaseNaughtyLevel", "", amount, FALSE), timers)

TimedHeartClick ==
    /\ mounted
    /\ state.heartClicks < MaxHeartRun
    /\ UNCHANGED now
    /\ Render(handleHeartClick(state), Call("handleHeartClick", "", 0, FALSE), timers)

\* the callback of the earliest timer runs once its delay has passed
TimerFires ==
    /\ timers # << >>
    /\ now' = IF Head(timers) > now THEN Head(timers) ELSE now
    /\ Render(hideConfetti(state), Call("hideConfetti", "timer", 0, FALSE), Tail(timers))

\* on unmount React runs the cleanup of the last effect run
Unmount ==
    /\ mounted
    /\ mounted' = FALSE
    /\ timers' = cleanup(state.showConfetti, timers)
    /\ lastCall' = Call("unmount", "", 0, FALSE)
    /\ prevState' = state
    /\ UNCHANGED <<state, now, localStorage, saved>>
    /\ UNCHANGED <<gestureVars, tabs>>

NextConfetti ==
    \/ TimedIncrease
    \/ TimedHeartClick
    \/ TimerFires
    \/ Unmount

SpecConfetti == Init /\ [][NextConfetti]_vars

\* a timer that was set and not cleared does fire
SpecConfettiLive == SpecConfetti /\ WF_vars(TimerFires)

----------------------------------------------------------------------------
(* Gestures: fingers coming down, moving and lifting on an element that     *)
(* carries the handlers of a swipe hook                                     *)

\* around (100,100): 60 to the left, exactly 50 to the right, 60 down,
\* and 60 both ways
Points ==
    { Point(100, 100), Point(40, 100), Point(150, 100),
      Point(100, 160), Point(160, 160) }

SwipeDistances == {0, DefaultSwipeDistance}

FingerIds == {1, 2}

\* an event object without clientX and clientY
NoCoordinates == Point(NaN, NaN)

InitSwipe ==
    /\ state = createInitialState
    /\ now = ClockStart
    /\ lastCall = Call("init", "", 0, FALSE)
    /\ prevState = createInitialState
    /\ localStorage = [ k \in StoreKeys |-> Missing ]
    /\ saved = "pending"
    /\ timers = << >>
    /\ mounted = TRUE
    /\ tabs = NoTabs
    /\ \E minSwipeDistance \in SwipeDistances : GestureIdle(minSwipeDistance)

StoreIdle == UNCHANGED <<state, lastCall, prevState, localStorage, saved, timers, mounted, tabs>>

\* e.touches: every contact on the screen, the earliest first
TouchesOf(fs) == [ i \in 1..Len(fs) |-> fs[i].at ]

Without(fs, i) == SubSeq(fs, 1, i - 1) \o SubSeq(fs, i + 1, Len(fs))

IsDown(id) == \E i \in 1..Len(fingers) : fingers[i].id = id

TouchEventOf(fs, changed) == [ touches |-> TouchesOf(fs), changedTouches |-> << changed >> ]

TouchStartOf(ids) == \E id \in ids, p \in Points :
    /\ ~IsDown(id)
    /\ LET fs == Append(fingers, [ id |-> id, origin |-> p, at |-> p ])
           handled == handleTouchStart(swipe, TouchEventOf(fs, p))
       IN  /\ fingers' = fs
           /\ swipe' = handled.refs
           /\ lastEvent' = Event("touchstart", id, Len(fs), p, p, handled, swipe)
    /\ UNCHANGED now
    /\ StoreIdle

TouchMoveOf(ids) == \E id \in ids, p \in Points, i \in 1..Len(fingers) :
    /\ fingers[i].id = id
    /\ fingers[i].at # p
    /\ LET fs == [ fingers EXCEPT ![i].at = p ]
           handled == handleTouchMove(swipe, TouchEventOf(fs, p))
       IN  /\ fingers' = fs
           /\ swipe' = handled.refs
           /\ lastEvent' = Event("touchmove", id, i, p, fingers[i].origin, handled, swipe)
    /\ UNCHANGED now
    /\ StoreIdle

\* the finger lifts where it is; it is no longer in e.touches
TouchEndOf(ids) == \E id \in ids, i \in 1..Len(fingers) :
    /\ fingers[i].id = id
    /\ LET fs == Without(fingers, i)
           handled == handleTouchEnd(swipe, TouchEventOf(fs, fingers[i].at))
       IN  /\ fingers' = fs
           /\ swipe' = handled.refs
           /\ lastEvent' = Event("touchend", id, i, fingers[i].at, fingers[i].origin,
                                 handled, swipe)
    /\ UNCHANGED now
    /\ StoreIdle

\* useSwipe under one finger
TouchStart == TouchStartOf({1})
TouchMove == TouchMoveOf({1})
TouchEnd == TouchEndOf({1})

NextSwipe ==
    \/ TouchStart
    \/ TouchMove
    \/ TouchEnd

SpecSwipe == InitSwipe /\ [][NextSwipe]_vars

\* useSwipe under two fingers
SecondTouchStart == TouchStartOf(FingerIds)
SecondTouchMove == TouchMoveOf(FingerIds)
SecondTouchEnd == TouchEndOf(FingerIds)

NextMultiTouch ==
    \/ SecondTouchStart
    \/ SecondTouchMove
    \/ SecondTouchEnd

SpecMultiTouch == InitSwipe /\ [][NextMultiTouch]_vars

\* useSwipeWithMouse: mouse events, with or without coordinates
MouseInputs == Points \cup {NoCoordinates}

MouseEvent(type, handled, e) ==
    /\ swipe' = handled.refs
    /\ lastEvent' = Event(type, 0, 0, e, Point(swipe.startX, swipe.startY), handled, swipe)
    /\ UNCHANGED <<fingers, now>>
    /\ StoreIdle

MouseDown == \E e \in MouseInputs : MouseEvent("mousedown", handleMouseDown(swipe, e), e)

MouseMove == \E e \in MouseInputs : MouseEvent("mousemove", handleMouseMove(swipe, e), e)

MouseUp == \E e \in MouseInputs : MouseEvent("mouseup", handleMouseUp(swipe, e), e)

\* touch events whose lists are empty, or whose touch has no coordinates
MalformedTouchEvents ==
    { [ touches |-> << >>, changedTouches |-> << >> ],
      [ touches |-> << NoCoordinates >>, changedTouches |-> << NoCoordinates >> ] }

MalformedTouch(type, handled) ==
    /\ swipe' = handled.refs
    /\ lastEvent' = Event(type, 1, 0, NoCoordinates, NoCoordinates, handled, swipe)
    /\ UNCHANGED <<fingers, now>>
    /\ StoreIdle

MalformedTouchStart == \E e \in MalformedTouchEvents :
    MalformedTouch("touchstart", handleTouchStart(swipe, e))

MalformedTouchEnd == \E e \in MalformedTouchEvents :
    MalformedTouch("touchend", handleTouchEnd(swipe, e))

NextMouse ==
    \/ MouseDown
    \/ MouseMove
    \/ MouseUp
    \/ MalformedTouchStart
    \/ MalformedTouchEnd

SpecMouse == InitSwipe /\ [][NextMouse]_vars

\* useSwipeVelocity under one finger; Date.now() never runs backwards
TimedTouchStart == \E p \in Points, clock \in ClockReadings :
    /\ ~IsDown(1)
    /\ clock >= now
    /\ now' = clock
    /\ LET fs == Append(fingers, [ id |-> 1, origin |-> p, at |-> p ])
           handled == handleTouchStartWithTime(swipe, TouchEventOf(fs, p), clock)
       IN  /\ fingers' = fs
           /\ swipe' = handled.refs
           /\ lastEvent' = Event("touchstart", 1, 1, p, p, handled, swipe)
    /\ StoreIdle

TimedTouchEnd == \E clock \in ClockReadings :
    /\ IsDown(1)
    /\ clock >= now
    /\ now' = clock
    /\ LET handled == handleTouchEndWithVelocity(swipe, TouchEventOf(<< >>, fingers[1].at), clock)
       IN  /\ fingers' = << >>
           /\ swipe' = handled.refs
           /\ lastEvent' = Event("touchend", 1, 1, fingers[1].at, fingers[1].origin,
                                 handled, swipe)
    /\ StoreIdle

NextVelocity ==
    \/ TimedTouchStart
    \/ TouchMove
    \/ TimedTouchEnd

SpecVelocity == InitSwipe /\ [][NextVelocity]_vars

\* the component passes any subset of the handlers to useSwipeVelocity
InitCallbacks ==
    /\ state = createInitialState
    /\ now = ClockStart
    /\ lastCall = Call("init", "", 0, FALSE)
    /\ prevState = createInitialState
    /\ localStorage = [ k \in StoreKeys |-> Missing ]
    /\ saved = "pending"
    /\ timers = << >>
    /\ mounted = TRUE
    /\ tabs = NoTabs
    /\ \E minSwipeDistance \in SwipeDistances, callbacks \in SUBSET AllCallbacks :
          LET refs == [ Refs(minSwipeDistance) EXCEPT !.callbacks = callbacks ]
          IN  /\ swipe = refs
              /\ fingers = << >>
              /\ lastEvent = NoEvent(refs)

SpecCallbacks == InitCallbacks /\ [][NextVelocity]_vars

----------------------------------------------------------------------------
(* Properties of the state store *)

HasId(s, photoId) == \E i \in 1..Len(s.photos) : s.photos[i].id = photoId

Called(op) == lastCall.op = op

\* C1: from the default state, under controller calls with non-negative
\* amounts, naughtyLevel is always an integer between 0 and 100.
C1_NaughtyLevelInRange ==
    state.naughtyLevel \in 0..100

\* a call that would have gone past 100 and was capped
C1_Witness ==
    /\ Called("increaseNaughtyLevel")
    /\ prevState.naughtyLevel \in 51..99
    /\ prevState.naughtyLevel + lastCall.amount > 100
    /\ state.naughtyLevel = 100

\* C2: increaseNaughtyLevel(amount), for any integer amount, applied to a
\* level within 0..100 leaves the level within 0..100.
C2_AnyAmountInRange ==
    (Called("increaseNaughtyLevel") /\ prevState.naughtyLevel \in 0..100)
        => state.naughtyLevel \in 0..100

\* C3: with n >= 1 photos the index stays within 0..n-1, and changePhoto
\* moves it to (index + 1) mod n for next and (index - 1 + n) mod n for prev.
C3_ChangePhotoWraps ==
    LET n == Len(prevState.photos)
        i == prevState.currentPhotoIndex
    IN  /\ Len(state.photos) >= 1
            => state.currentPhotoIndex \in 0..(Len(state.photos) - 1)
        /\ (Called("changePhoto") /\ n >= 1 /\ lastCall.arg = "next")
            => state.currentPhotoIndex = (i + 1) % n
        /\ (Called("changePhoto") /\ n >= 1 /\ lastCall.arg = "prev")
            => state.currentPhotoIndex = (i - 1 + n) % n

\* prev on 3 photos at index 0 lands on index 2
C3_Witness ==
    /\ Called("changePhoto") /\ lastCall.arg = "prev"
    /\ Len(prevState.photos) = 3
    /\ prevState.currentPhotoIndex = 0
    /\ state.currentPhotoIndex = 2

\* C4: changePhoto on an empty photos list leaves currentPhotoIndex an
\* unchanged, valid integer (no remainder by zero is taken).
C4_EmptyShortCircuits ==
    (Called("changePhoto") /\ Len(prevState.photos) = 0)
        => /\ state.currentPhotoIndex # NaN
           /\ state.currentPhotoIndex = prevState.currentPhotoIndex

\* C5: likePhoto(id) for an existing id adds one like to exactly one photo,
\* the one with that id, caps naughtyLevel + 5 at 100, adds one heart click
\* and changes nothing else.
C5_LikeExisting ==
    (Called("likePhoto") /\ HasId(prevState, lastCall.arg))
        => \E i \in 1..Len(prevState.photos) :
             /\ prevState.photos[i].id = lastCall.arg
             /\ state = [ prevState EXCEPT
                    !.photos[i].likes = @ + 1,
                    !.naughtyLevel = IF @ + 5 < 100 THEN @ + 5 ELSE 100,
                    !.heartClicks = @ + 1 ]

\* C6: likePhoto(id) for an id no photo has leaves photos as it was and
\* still caps naughtyLevel + 5 at 100 and adds one heart click.
C6_LikeUnknown ==
    (Called("likePhoto") /\ ~HasId(prevState, lastCall.arg))
        => /\ state.photos = prevState.photos
           /\ state.naughtyLevel =
                (IF prevState.naughtyLevel + 5 < 100
                 THEN prevState.naughtyLevel + 5 ELSE 100)
           /\ state.heartClicks = prevState.heartClicks + 1

C6_Witness ==
    /\ Called("likePhoto") /\ lastCall.arg = "nope"
    /\ ~HasId(prevState, "nope")
    /\ state.heartClicks = prevState.heartClicks + 1
    /\ state.naughtyLevel > prevState.naughtyLevel

\* C7: likePhoto or toggleFavorite with an id no photo has is a no-op: the
\* state after equals the state before and nothing is thrown.
C7_UnknownIdNoOp ==
    (lastCall.op \in {"likePhoto", "toggleFavorite"} /\ ~HasId(prevState, lastCall.arg))
        => (state = prevState /\ ~lastCall.threw)

\* C8: navigateTo(view) with a valid view sets currentView to it and
\* changes no other field.
C8_NavigateFrame ==
    (Called("navigateTo") /\ lastCall.arg \in {"home", "gallery", "naughty"})
        => state = [ prevState EXCEPT !.currentView = lastCall.arg ]

C8_Witness ==
    /\ Called("navigateTo") /\ lastCall.arg = "naughty"
    /\ prevState.currentView = "gallery"
    /\ state.currentView = "naughty"
    /\ prevState.currentPhotoIndex > 0
    /\ prevState.heartClicks > 0

\* C9: navigateTo with a view outside {home, gallery, naughty} does not throw
\* and leaves the state as it was, so currentView is always one of the three.
C9_InvalidViewRejected ==
    /\ (Called("navigateTo") /\ lastCall.arg \notin {"home", "gallery", "naughty"})
          => (state = prevState /\ ~lastCall.threw)
    /\ state.currentView \in {"home", "gallery", "naughty"}

C9_Witness ==
    /\ Called("navigateTo") /\ lastCall.arg = "bogus"
    /\ prevState.currentView = "gallery"
    /\ state.currentView = "gallery"

\* C10: goBack leads from naughty to gallery and from any other view to
\* home, whatever came before, and changes no other field.
C10_GoBack ==
    Called("goBack")
        => state = [ prevState EXCEPT !.currentView =
                       IF prevState.currentView = "naughty" THEN "gallery" ELSE "home" ]

C10_Witness ==
    /\ Called("goBack")
    /\ prevState.currentView = "naughty"
    /\ state.currentView = "gallery"

\* C11: toggleFavorite(id) for an existing id flips isFavorite on exactly
\* one photo, the one with that id; its other attributes, every other photo,
\* the order and every other state field stay as they were.
C11_ToggleOnlyThatPhoto ==
    (Called("toggleFavorite") /\ HasId(prevState, lastCall.arg))
        => \E i \in 1..Len(prevState.photos) :
             /\ prevState.photos[i].id = lastCall.arg
             /\ state = [ prevState EXCEPT !.photos[i].isFavorite = ~@ ]

\* C14: all photo ids in photos are pairwise distinct, also after several
\* addPhoto calls made while the clock has not advanced.
C14_IdsDistinct ==
    \A i, j \in 1..Len(state.photos) :
        state.photos[i].id = state.photos[j].id => i = j

\* the payload of the last addPhoto call
UrlGiven == lastCall.payload.present
            /\ lastCall.payload.url.t = "string" /\ lastCall.payload.url.v # ""
CaptionAbsent == lastCall.payload.caption.t = "undefined"
CaptionString == lastCall.payload.caption.t = "string"

\* one photo appended with the given url and caption c, nothing else touched
AppendedWith(c) ==
    LET n == Len(prevState.photos)
    IN  /\ Len(state.photos) = n + 1
        /\ SubSeq(state.photos, 1, n) = prevState.photos
        /\ state.photos[n + 1].likes = 0
        /\ state.photos[n + 1].isFavorite = FALSE
        /\ state.photos[n + 1].url = lastCall.payload.url.v
        /\ state.photos[n + 1].caption = c
        /\ [ state EXCEPT !.photos = prevState.photos ] = prevState

\* C12 as stated: addPhoto with a non-empty string url appends one photo at
\* the end with likes 0, isFavorite false, the url, and the given caption, or
\* the default caption when the caption is absent; nothing else changes.
C12_AppendsGivenCaption ==
    (Called("addPhoto") /\ UrlGiven /\ (CaptionAbsent \/ CaptionString))
        => AppendedWith(IF CaptionAbsent THEN DefaultCaption
                        ELSE lastCall.payload.caption.v)

\* C12 amended: the same, with the default caption also when the given
\* caption is the empty string.
C12_AppendsCaptionOrDefault ==
    (Called("addPhoto") /\ UrlGiven /\ (CaptionAbsent \/ CaptionString))
        => AppendedWith(IF CaptionAbsent \/ lastCall.payload.caption.v = ""
                        THEN DefaultCaption
                        ELSE lastCall.payload.caption.v)

\* an empty caption was given and the default one was stored
C12_Witness ==
    /\ Called("addPhoto") /\ UrlGiven /\ CaptionString
    /\ lastCall.payload.caption.v = ""
    /\ Len(state.photos) = Len(prevState.photos) + 1
    /\ state.photos[Len(state.photos)].caption = DefaultCaption
    /\ prevState.currentPhotoIndex > 0

\* C13: addPhoto with an invalid payload (url missing, not a string or
\* empty; caption not a string; payload absent) does not throw and leaves
\* the state as it was.
C13_InvalidPayloadRejected ==
    (Called("addPhoto")
       /\ \/ ~lastCall.payload.present
          \/ lastCall.payload.url.t # "string"
          \/ lastCall.payload.url.v = ""
          \/ lastCall.payload.caption.t = "number")
        => (state = prevState /\ ~lastCall.threw)

\* C15: every photo's caption is trimmed and at most 200 characters long,
\* also when addPhoto was given a longer caption.
C15_CaptionCapped ==
    \A i \in 1..Len(state.photos) :
        /\ Len(state.photos[i].caption) <= MaxCaption
        /\ state.photos[i].caption = sanitizeCaption(state.photos[i].caption)

\* the last call took the level from below 50 to 50 or above
Crossed50 == prevState.naughtyLevel < 50 /\ state.naughtyLevel >= 50

CappedAt100(n) == IF n < 100 THEN n ELSE 100

\* C16: increaseNaughtyLevel(amount) sets the level to min(level + amount,
\* 100); showConfetti is true after a call that crosses 50 from below, and a
\* call that does not cross never turns showConfetti on.
C16_ConfettiOnCrossing ==
    Called("increaseNaughtyLevel")
        => /\ state.naughtyLevel = CappedAt100(prevState.naughtyLevel + lastCall.amount)
           /\ Crossed50 => state.showConfetti
           /\ (~Crossed50 /\ state.showConfetti) => prevState.showConfetti

\* the default amount takes the level across 50
C16_Witness ==
    /\ Called("increaseNaughtyLevel") /\ lastCall.amount = DefaultAmount
    /\ Crossed50
    /\ ~prevState.showConfetti
    /\ state.showConfetti

\* C17 as stated: at level 100, increaseNaughtyLevel with an amount >= 0
\* leaves the whole state, showConfetti included, as it was.
C17_NothingChangesAt100 ==
    (Called("increaseNaughtyLevel") /\ prevState.naughtyLevel = 100
       /\ lastCall.amount >= 0)
        => state = prevState

\* C17 amended: at level 100 the call keeps the level at 100 and every other
\* field but showConfetti, which it sets to false; calling it again changes
\* nothing any more.
C17_IdempotentAt100 ==
    (Called("increaseNaughtyLevel") /\ prevState.naughtyLevel = 100
       /\ lastCall.amount >= 0)
        => /\ state = [ prevState EXCEPT !.showConfetti = FALSE ]
           /\ \A amount \in UiAmounts : increaseNaughtyLevel(state, amount) = state

\* the tenth heart click reached 100 with confetti on; the call cleared it
C17_Witness ==
    /\ Called("increaseNaughtyLevel")
    /\ prevState.naughtyLevel = 100
    /\ prevState.showConfetti
    /\ ~state.showConfetti
    /\ state.naughtyLevel = 100

\* C18: handleHeartClick adds one heart click, caps naughtyLevel + 3 at 100
\* and leaves showConfetti true exactly when the new count is a multiple of
\* 10: false after clicks 1 to 9 from zero, true after the tenth.
C18_HeartClick ==
    Called("handleHeartClick")
        => /\ state.heartClicks = prevState.heartClicks + 1
           /\ state.naughtyLevel = CappedAt100(prevState.naughtyLevel + 3)
           /\ state.showConfetti = (state.heartClicks % 10 = 0)
           /\ state.heartClicks \in 1..9 => ~state.showConfetti
           /\ state.heartClicks = 10 => state.showConfetti

C18_Witness ==
    /\ Called("handleHeartClick")
    /\ prevState.heartClicks = 9
    /\ ~prevState.showConfetti
    /\ state.heartClicks = 10
    /\ state.showConfetti

\* C19: heartClicks is never negative; likePhoto and handleHeartClick raise
\* it by exactly 1 and every other controller call leaves it unchanged.
C19_HeartClicksMonotone ==
    /\ state.heartClicks >= 0
    /\ lastCall.op \in {"likePhoto", "handleHeartClick"}
          => state.heartClicks = prevState.heartClicks + 1
    /\ lastCall.op \notin {"likePhoto", "handleHeartClick"}
          => state.heartClicks = prevState.heartClicks

C19_Witness ==
    /\ Called("resetNaughtyLevel")
    /\ prevState.heartClicks > 0
    /\ prevState.naughtyLevel > 0
    /\ state.heartClicks = prevState.heartClicks
    /\ state.naughtyLevel = 0

\* C20: once the save effect of the latest render has run and the store took
\* the write, the key "valentine-app-state" holds the current state with all
\* six fields, and no other key was written.
C20_SavedOnEveryChange ==
    saved = "stored"
        => /\ localStorage[AppKey].kind = "json"
           /\ localStorage[AppKey].value.currentView = state.currentView
           /\ localStorage[AppKey].value.photos = state.photos
           /\ localStorage[AppKey].value.naughtyLevel = state.naughtyLevel
           /\ localStorage[AppKey].value.heartClicks = state.heartClicks
           /\ localStorage[AppKey].value.showConfetti = state.showConfetti
           /\ localStorage[AppKey].value.currentPhotoIndex = state.currentPhotoIndex
           /\ \A k \in StoreKeys \ {AppKey} : localStorage[k] = Missing

\* a changed state, saved after an earlier write had been refused
C20_Witness ==
    /\ saved = "stored"
    /\ state.currentView = "naughty"
    /\ state.showConfetti
    /\ state.photos[1].isFavorite
    /\ localStorage[AppKey].value = state

----------------------------------------------------------------------------
(* Properties of persistence *)

IsDefaultState(s) ==
    /\ s.currentView = "home"
    /\ Len(s.photos) = 3
    /\ \A i \in 1..3 : s.photos[i].id = toString(i) /\ s.photos[i].likes = 0
    /\ s.naughtyLevel = 0
    /\ s.heartClicks = 0
    /\ ~s.showConfetti
    /\ s.currentPhotoIndex = 0

\* C21: on start, a missing key, a failing read or bytes that do not parse
\* give the default state, a serialized state gives that state, and in no
\* case does an error reach the caller.
C21_LoadOnStart ==
    Called("init")
        => /\ ~lastCall.threw
           /\ (lastCall.arg = "blocked"
                 \/ localStorage[AppKey].kind \in {"missing", "empty", "malformed"})
                => IsDefaultState(state)
           /\ (lastCall.arg # "blocked" /\ localStorage[AppKey].kind = "json")
                => state = localStorage[AppKey].value

\* a stored state that is not the default one was restored
C21_Witness ==
    /\ Called("init")
    /\ lastCall.arg # "blocked"
    /\ localStorage[AppKey].kind = "json"
    /\ state = localStorage[AppKey].value
    /\ state.currentView = "gallery"
    /\ state.naughtyLevel = 40

\* C22: a write the store refuses is caught: the state in memory and the
\* store stay as they were, and the next transition is applied and
\* schedules a write of its own.
C22_WriteFailureCaught ==
    [][ /\ (saved = "pending" /\ saved' = "failed")
            => (state' = state /\ localStorage' = localStorage /\ lastCall' = lastCall)
        /\ (saved = "failed" /\ lastCall'.op = "handleHeartClick")
            => (state' = handleHeartClick(state) /\ saved' = "pending")
        /\ (saved = "failed" /\ state' # state) => saved' = "pending" ]_vars

\* a transition whose write was refused: memory is ahead of the store
C22_Witness ==
    /\ saved = "failed"
    /\ Called("handleHeartClick")
    /\ state.heartClicks = prevState.heartClicks + 1
    /\ localStorage[AppKey].kind = "json"
    /\ localStorage[AppKey].value = prevState
    /\ localStorage[AppKey].value # state

C24_SyncReplaces ==
    Called("storage")
        => /\ ~lastCall.threw
           /\ IF lastCall.arg = AppKey /\ lastCall.item.kind = "json"
              THEN /\ state.currentView = lastCall.item.value.currentView
                   /\ state.photos = lastCall.item.value.photos
                   /\ state.naughtyLevel = lastCall.item.value.naughtyLevel
                   /\ state.heartClicks = lastCall.item.value.heartClicks
                   /\ state.showConfetti = lastCall.item.value.showConfetti
                   /\ state.currentPhotoIndex = lastCall.item.value.currentPhotoIndex
              ELSE state = prevState

\* the notified state differs from the local one in every field
C24_Witness ==
    /\ Called("storage")
    /\ lastCall.arg = AppKey
    /\ lastCall.item = JSONstringify(OtherTabState)
    /\ state = OtherTabState
    /\ prevState.currentView = "gallery"
    /\ prevState.photos[1].isFavorite
    /\ prevState.naughtyLevel # state.naughtyLevel
    /\ prevState.heartClicks # state.heartClicks
    /\ prevState.showConfetti # state.showConfetti
    /\ prevState.currentPhotoIndex # state.currentPhotoIndex

----------------------------------------------------------------------------
(* Properties of the confetti timer *)

\* C25: whenever the confetti shows while the App is mounted, it is hidden
\* again later (or the App is unmounted), provided a pending timer fires.
C25_ConfettiAutoHide ==
    (mounted /\ state.showConfetti) ~> (~state.showConfetti \/ ~mounted)

\* the timer's hideConfetti, no sooner than the delay after the flag was set
C25_Witness ==
    /\ Called("hideConfetti")
    /\ lastCall.arg = "timer"
    /\ mounted
    /\ prevState.showConfetti
    /\ ~state.showConfetti
    /\ timers = << >>
    /\ now >= ClockStart + ConfettiDelay

\* C26: at most one auto-hide timer is pending at any time, and after the
\* unmount no timer is pending, so that no hideConfetti follows the unmount.
C26_TimerCancelled ==
    /\ Len(timers) <= 1
    /\ ~mounted => (timers = << >> /\ Called("unmount"))

\* unmounted while the confetti showed and its timer was pending
C26_Witness ==
    /\ ~mounted
    /\ Called("unmount")
    /\ state.showConfetti
    /\ state.heartClicks > 0
    /\ state.heartClicks % 10 = 0
    /\ timers = << >>

----------------------------------------------------------------------------
(* Properties of the swipe hooks *)

Abs(n) == IF n < 0 THEN -n ELSE n

\* the outcome the rule gives for a drag by (dx, dy): "" for no callback
Outcome(dx, dy, threshold) ==
    IF Abs(dx) > Abs(dy) /\ Abs(dx) > threshold
    THEN (IF dx > 0 THEN "onSwipeRight" ELSE "onSwipeLeft")
    ELSE IF Abs(dy) > threshold
    THEN (IF dy > 0 THEN "onSwipeDown" ELSE "onSwipeUp")
    ELSE ""

\* C27: at the end of a gesture from (x0, y0) to (x, y), useSwipe calls the
\* one callback the rule names and no other; a tie of |dx| and |dy| above the
\* threshold is vertical, and a distance equal to the threshold fires nothing.
C27_Classification ==
    lastEvent.type = "touchend"
        => LET dx == lastEvent.at.clientX - lastEvent.origin.clientX
               dy == lastEvent.at.clientY - lastEvent.origin.clientY
               threshold == lastEvent.before.minSwipeDistance
               expected == Outcome(dx, dy, threshold)
           IN  /\ ~lastEvent.threw
               /\ Len(lastEvent.fired) <= 1
               /\ expected = "" <=> lastEvent.fired = << >>
               /\ expected # "" => lastEvent.fired = << Fired(expected) >>
               /\ (Abs(dx) = Abs(dy) /\ Abs(dy) > threshold)
                    => lastEvent.fired[1].name \in {"onSwipeDown", "onSwipeUp"}
               /\ (Abs(dx) <= threshold /\ Abs(dy) <= threshold)
                    => lastEvent.fired = << >>

\* a tie above the threshold, taken as a swipe down
C27_Witness ==
    /\ lastEvent.type = "touchend"
    /\ lastEvent.origin = Point(100, 100)
    /\ lastEvent.at = Point(160, 160)
    /\ lastEvent.before.minSwipeDistance = DefaultSwipeDistance
    /\ lastEvent.fired = << Fired("onSwipeDown") >>

\* C28: while a first finger is down, the events of a second finger neither
\* change the recorded start coordinates nor call a directional callback.
C28_FirstFingerOnly ==
    lastEvent.rank > 1
        => /\ lastEvent.fired = << >>
           /\ swipe.touchStartX = lastEvent.before.touchStartX
           /\ swipe.touchStartY = lastEvent.before.touchStartY

\* an event without coordinate data: an empty touch list, or no clientX
LacksCoordinates == lastEvent.at = NoCoordinates

\* C29: a start or end event without coordinate data raises an error on
\* the touch path and on the mouse path alike.
C29_MalformedFailsFast ==
    (LacksCoordinates /\ lastEvent.type \in {"touchstart", "touchend", "mousedown", "mouseup"})
        => lastEvent.threw

\* C30: useSwipeVelocity reports a finite velocity when the gesture ends in
\* the millisecond it began; otherwise the duration is t_end - t0 >= 0 and
\* the velocity is threshold / duration.
C30_VelocityGuarded ==
    (lastEvent.type = "touchend" /\ lastEvent.fired # << >>)
        => LET reported == lastEvent.fired[1]
           IN  /\ reported.name = "onSwipe"
               /\ reported.duration = now - lastEvent.before.startTime
               /\ reported.duration >= 0
               /\ reported.duration = 0 => reported.velocity \notin {Infinity, -Infinity, NaN}
               /\ reported.duration > 0
                    => reported.velocity = lastEvent.before.minSwipeDistance \div reported.duration

\* what useSwipe.handleTouchEnd calls for a touch that came down where the
\* drag began and lifts where the mouse button is released
TouchPathFires ==
    handleTouchEnd([ lastEvent.before EXCEPT
                       !.touchStartX = lastEvent.before.startX,
                       !.touchStartY = lastEvent.before.startY ],
                   [ touches |-> << >>, changedTouches |-> << lastEvent.at >> ]).fired

\* C38: a mouse-up that ends a drag calls the same directional callback, or
\* none, as handleTouchEnd does for the same start point, end point and
\* threshold.
C38_MouseAsTouch ==
    (lastEvent.type = "mouseup" /\ lastEvent.before.isDragging)
        => lastEvent.fired = TouchPathFires

\* a drag of 60 both ways: a swipe down on either path
C38_Witness ==
    /\ lastEvent.type = "mouseup"
    /\ lastEvent.before.isDragging
    /\ lastEvent.origin = Point(100, 100)
    /\ lastEvent.at = Point(160, 160)
    /\ lastEvent.before.minSwipeDistance = DefaultSwipeDistance
    /\ lastEvent.fired = << Fired("onSwipeDown") >>
    /\ TouchPathFires = << Fired("onSwipeDown") >>

\* C39: on the mouse path only a mouse-up that ends a drag calls a callback,
\* and at most one; mouse-down and mouse-move call none, and a mouse-up
\* outside a drag calls none and changes nothing.
C39_OnlyDragEndFires ==
    /\ Len(lastEvent.fired) <= 1
    /\ lastEvent.type \in {"mousedown", "mousemove"} => lastEvent.fired = << >>
    /\ lastEvent.type = "mousedown" => swipe.isDragging
    /\ lastEvent.type = "mousemove" => swipe = lastEvent.before
    /\ lastEvent.type = "mouseup" => ~swipe.isDragging
    /\ (lastEvent.type = "mouseup" /\ ~lastEvent.before.isDragging)
         => (lastEvent.fired = << >> /\ swipe = lastEvent.before)

\* a mouse-up after the drag had ended, 60 to the left of where it began
C39_Witness ==
    /\ lastEvent.type = "mouseup"
    /\ ~lastEvent.before.isDragging
    /\ lastEvent.origin = Point(100, 100)
    /\ lastEvent.at = Point(40, 100)
    /\ lastEvent.before.minSwipeDistance = DefaultSwipeDistance
    /\ lastEvent.fired = << >>

\* C31: at the end of a gesture useSwipeVelocity calls onSwipe once, with
\* the velocity and the duration, when it is defined and not at all when it
\* is not; either way it calls the directional callback the rule names when
\* that one is defined, and nothing throws.
C31_VelocityAlongsideDirection ==
    lastEvent.type = "touchend"
        => LET callbacks == lastEvent.before.callbacks
               dx == lastEvent.at.clientX - lastEvent.origin.clientX
               dy == lastEvent.at.clientY - lastEvent.origin.clientY
               expected == Outcome(dx, dy, lastEvent.before.minSwipeDistance)
               unified == { i \in 1..Len(lastEvent.fired) :
                              lastEvent.fired[i].name = "onSwipe" }
               directional == { lastEvent.fired[i].name : i \in 1..Len(lastEvent.fired) }
                                  \ {"onSwipe"}
           IN  /\ ~lastEvent.threw
               /\ Len(lastEvent.fired) <= 2
               /\ Cardinality(unified) = IF "onSwipe" \in callbacks THEN 1 ELSE 0
               /\ \A i \in unified :
                      lastEvent.fired[i].duration = now - lastEvent.before.startTime
               /\ Cardinality(unified) + Cardinality(directional) = Len(lastEvent.fired)
               /\ directional = {expected} \cap callbacks

\* a swipe left with both handlers defined: onSwipe and onSwipeLeft are called
C31_Witness ==
    /\ lastEvent.type = "touchend"
    /\ {"onSwipe", "onSwipeLeft"} \subseteq lastEvent.before.callbacks
    /\ Len(lastEvent.fired) = 2
    /\ \E i \in 1..2 : lastEvent.fired[i].name = "onSwipe"
    /\ \E i \in 1..2 : lastEvent.fired[i] = Fired("onSwipeLeft")

\* C32: once removeValue has removed the item and the effects of the render
\* it causes have run, the key is absent from the store and the value held
\* is the initial one.
C32_RemoveClears ==
    (Called("removeValue") /\ lastCall.arg # "blocked" /\ saved # "pending")
        => /\ localStorage[AppKey] = Missing
           /\ state = createInitialState

\* no effect is pending and no event is queued, and both documents hold the
\* value that is stored
Quiescent ==
    /\ \A t \in TabIds : tabs[t].effect # "pending" /\ tabs[t].inbox = << >>
    /\ \A t \in TabIds : localStorage[AppKey] = JSONstringify(tabs[t].storedValue)

\* C33: two documents on the same key come to rest: once their own changes
\* are over and the events are delivered, both hold the stored value for
\* good.
C33_Converges == <>[]Quiescent

\* how many of the calls are heart clicks
HeartClicksIn(calls) ==
    Cardinality({ i \in 1..Len(calls) : calls[i] = "handleHeartClick" })

\* C34: calls issued back to back before a render all take effect, in the
\* order they were issued: k heart clicks raise heartClicks by k and the
\* meter by 3 each up to 100, the last call decides the confetti flag, and
\* two calls give what the second gives on the result of the first.
C34_NoLostUpdate ==
    Called("batch")
        => LET calls == lastCall.payload
               k == HeartClicksIn(calls)
               last == calls[Len(calls)]
           IN  /\ state.heartClicks = prevState.heartClicks + k
               /\ state.naughtyLevel = MathMin(prevState.naughtyLevel + 3 * k, 100)
               /\ state.showConfetti =
                      (last = "handleHeartClick" /\ state.heartClicks % 10 = 0)
               /\ state.photos = prevState.photos
               /\ state.currentView = prevState.currentView
               /\ Len(calls) = 2
                    => state = updaterOf(calls[2], updaterOf(calls[1], prevState))

\* the tenth heart click and the timer's hideConfetti in one batch: the
\* click is counted and the confetti is hidden
C34_Witness ==
    /\ Called("batch")
    /\ lastCall.payload = << "handleHeartClick", "handleHeartClick", "hideConfetti" >>
    /\ state.heartClicks = prevState.heartClicks + 2
    /\ state.heartClicks % 10 = 0
    /\ ~state.showConfetti

\* C35 as stated: a call of increaseNaughtyLevel that does not take the
\* level across 50 leaves showConfetti as it was.
C35_FlagKept ==
    (Called("increaseNaughtyLevel") /\ ~Crossed50)
        => state.showConfetti = prevState.showConfetti

\* C35 amended: every call of increaseNaughtyLevel writes showConfetti, true
\* when the level crosses 50 from below and false when it does not, whatever
\* the flag was; the view, the photos, the index and heartClicks are kept.
C35_FlagRecomputed ==
    Called("increaseNaughtyLevel")
        => /\ state.showConfetti = Crossed50
           /\ state = [ prevState EXCEPT !.naughtyLevel = state.naughtyLevel,
                                         !.showConfetti = state.showConfetti ]

\* the confetti of the tenth heart click, cleared by a call that stays
\* below 50
C35_Witness ==
    /\ Called("increaseNaughtyLevel")
    /\ prevState.heartClicks > 0 /\ prevState.heartClicks % 10 = 0
    /\ prevState.showConfetti
    /\ state.naughtyLevel < 50
    /\ ~state.showConfetti

RECURSIVE SumOfLikes(_)
SumOfLikes(photos) ==
    IF photos = << >> THEN 0 ELSE Head(photos).likes + SumOfLikes(Tail(photos))

\* C36: after any controller calls from the default state every photo has
\* likes >= 0, no call lowers a photo's likes, and the likes of all photos
\* together are at most heartClicks.
C36_LikesBounded ==
    /\ \A i \in 1..Len(state.photos) : state.photos[i].likes >= 0
    /\ \A i \in 1..Len(prevState.photos) :
           i <= Len(state.photos) /\ state.photos[i].likes >= prevState.photos[i].likes
    /\ SumOfLikes(state.photos) <= state.heartClicks

\* C37: whatever the key holds when the App mounts, the state it starts with
\* has a valid view, a level between 0 and 100, heartClicks >= 0 and an
\* index that points into the photos.
C37_RestoredStateValid ==
    Called("init")
        => /\ state.currentView \in validViews
           /\ state.naughtyLevel \in 0..100
           /\ state.heartClicks >= 0
           /\ state.currentPhotoIndex \in 0..(Len(state.photos) - 1)

====
